---------------------------- MODULE Spec2Model ----------------------------
(***************************************************************************)
(* mpegflow (src/main.cpp): the program from main's first line to its     *)
(* last, in grid mode and in raw mode.                                     *)
(*                                                                         *)
(* The state is the program's: the command line, the statics of            *)
(* read_packets (initialized, pkt, pktCopy), the locals of main (the two   *)
(* ARG_ variables, frameIndex, pts, pictType, motionVectors, the stream    *)
(* size), the static buffer `prev` of output_vectors_std, the text written *)
(* to stdout (`out`, one record per frame printed) and the position of the *)
(* single thread of control (`pc`).  The demuxer and the decoder are       *)
(* external: every result they may return is drawn with \E.                *)
(***************************************************************************)
EXTENDS Integers, Sequences, FiniteSets

VARIABLES
    pc,             \* position of the single thread of control
    argv,           \* main: the command line after the program's name
    ARG_OUTPUT_RAW_MOTION_VECTORS,  \* main                        (line 282)
    ARG_VIDEO_PATH, \* main: the path, or NULL                     (line 283)
    fatal,          \* the fatal condition that ended the run, or "none"
    initialized,    \* read_packets: static bool initialized       (line 99)
    pkt,            \* read_packets: static AVPacket pkt           (line 100)
    pktCopy,        \* read_packets: static AVPacket pktCopy       (line 100)
    dec,            \* process_frame: locals ret, got_frame of the attempt just made
    eof,            \* the container has reported "no packet"
    nPackets,       \* packets the container has handed out so far
    pFrame,         \* the decoded frame: timestamps, type, motion-vector side data
    pts,            \* main: int64_t pts                           (line 305)
    pictType,       \* main: char pictType                         (line 306)
    motionVectors,  \* main: vector<AVMotionVector> motionVectors  (line 307)
    frameIndex,     \* main: the for loop's frameIndex             (line 309)
    frameWidth,     \* main: frameWidth                            (line 301)
    frameHeight,    \* main: frameHeight                           (line 301)
    prev,           \* output_vectors_std: static vector<FrameInfo> prev (229)
    out,            \* stdout: the frames printed, in order
    decoded,        \* history: the vector list of every decoded frame, in order
    resolved        \* history: the decoder's timestamps, the resolved timestamp
                    \* and the picture type of every decoded frame, in order

vars == <<pc, argv, ARG_OUTPUT_RAW_MOTION_VECTORS, ARG_VIDEO_PATH, fatal,
          initialized, pkt, pktCopy, dec, eof, nPackets, pFrame, pts, pictType,
          motionVectors, frameIndex, frameWidth, frameHeight, prev, out,
          decoded, resolved>>

\* the command line, what main reads from it, and how the start-up ended
argVars == <<argv, ARG_OUTPUT_RAW_MOTION_VECTORS, ARG_VIDEO_PATH, fatal>>

-----------------------------------------------------------------------------
(* Bounds of the model *)

\* packets the container holds at most
MaxPackets == 2
\* frames the decoder yields at most
MaxFrames == 4
\* bytes a packet holds at most
MaxPktSize == 2

(* Program constants *)

GRID_STEP == 16
MAX_GRID_SIZE == 512
videoStreamIndex == 0

\* the decoder's mark of a timestamp it does not know: in libavutil the
\* smallest int64_t, here a value below every timestamp of the model
AV_NOPTS_VALUE == -(2^30)

\* size_t arithmetic is modular.  The program's size_t has 64 bits; TLC's
\* integers have 32, so the modulus here is 2^30: every value the model feeds
\* to it lies within +-2^15 (AVMotionVector's coordinates are int16_t), and
\* what matters is that a negative value wraps above every array index.
SIZE_MOD == 2^30

Min(a, b) == IF a <= b THEN a ELSE b
Max(a, b) == IF a >= b THEN a ELSE b

\* C's integer division truncates toward zero
CDiv(a, b) == IF a >= 0 THEN a \div b ELSE -((-a) \div b)

\* conversion of an int to size_t
ToSizeT(x) == x % SIZE_MOD

-----------------------------------------------------------------------------
(* Inputs *)

MV(sx, sy, ddx, ddy) == [src_x |-> sx, src_y |-> sy, dst_x |-> sx - ddx, dst_y |-> sy - ddy]

\* the motion-vector side data a decoded frame may carry.  In the 3x2 grid the
\* first list writes cell (0,0); the second writes cell (0,0) twice, and has a
\* vector left of the frame and one far right of it.
VectorLists ==
    { << MV(8, 8, 10, -3) >>,
      << MV(8, 8, 4, 4), MV(12, 4, 20, 0), MV(-20, 100, -7, 5), MV(9000, 4, 3, 3) >> }

\* the stream sizes <<width, height>>: 3x2 cells, and a stream narrower than a cell
Dims == { <<48, 32>>, <<8, 32>> }

\* the command lines, the program's name left out
GridArgvs == { <<>>, <<"video.mp4">> }
RawArgvs == { <<"--raw">>, <<"video.mp4", "--raw">> }

\* what the uninitialized locals of main (lines 305-306) may hold
GarbagePts == {0, 1000}
GarbagePictTypes == {"?", "x"}


-----------------------------------------------------------------------------
(* FrameInfo (lines 157-212).  dx and dy are 512x512 arrays zeroed by the     *)
(* constructor; they are kept sparse here: a function from the cells that    *)
(* were assigned to their values, every other cell reading 0.  The occupancy *)
(* array is written (always with false) and never read; it is left out.      *)

\* FrameInfo::FrameInfo, then the assignments of lines 232-235
NewFrameInfo(idx, p, t, shape) ==
    [FrameIndex |-> idx, Pts |-> p, PictType |-> t, Shape |-> shape,
     dx |-> <<>>, dy |-> <<>>, Empty |-> TRUE]

\* cur.Shape (line 235): <<rows, cols>>, stored as size_t
ShapeOf(width, height) ==
    << ToSizeT(Min(CDiv(height, GRID_STEP), MAX_GRID_SIZE)),
       ToSizeT(Min(CDiv(width, GRID_STEP), MAX_GRID_SIZE)) >>

\* the cells the loops of InterpolateFlow and Print visit
ShapeCells(shape) == (0 .. shape[1] - 1) \X (0 .. shape[2] - 1)

\* g[i][j]
Cell(g, c) == IF c \in DOMAIN g THEN g[c] ELSE 0

\* g[i][j] = v
Put(g, c, v) == [x \in (DOMAIN g) \cup {c} |-> IF x = c THEN v ELSE g[x]]

\* i_clipped or j_clipped (lines 243-246): the int quotient converted to size_t,
\* min with the unsigned Shape - 1, max with size_t(0)
Clipped(src, n) ==
    Max(ToSizeT(0), Min(ToSizeT(CDiv(src, GRID_STEP)), ToSizeT(n - 1)))

\* <<i_clipped, j_clipped>> of one vector
CellOf(mv, shape) == << Clipped(mv.src_y, shape[1]), Clipped(mv.src_x, shape[2]) >>

\* the index is inside the arrays dx[512][512], dy[512][512]
InBounds(c) == c[1] < MAX_GRID_SIZE /\ c[2] < MAX_GRID_SIZE

\* some vector of the list is written outside the arrays: undefined behaviour
OutOfBounds(mvs, shape) == \E i \in 1 .. Len(mvs) : ~InBounds(CellOf(mvs[i], shape))

\* the loop's body adding the displacement to what the cell holds
AggregateOne_accumulates(cur, mv) ==
    LET c == CellOf(mv, cur.Shape)
        mvdx == mv.src_x - mv.dst_x
        mvdy == mv.src_y - mv.dst_y
    IN  IF InBounds(c)
        THEN [cur EXCEPT !.Empty = FALSE, !.dx = Put(@, c, Cell(@, c) + mvdx),
                                          !.dy = Put(@, c, Cell(@, c) + mvdy)]
        ELSE [cur EXCEPT !.Empty = FALSE]

\* one iteration of the loop of lines 237-252.  A write outside the arrays
\* that does not end the process lands in memory that is not the frame's grid.
AggregateOne(cur, mv) ==
    LET c == CellOf(mv, cur.Shape)
        mvdx == mv.src_x - mv.dst_x
        mvdy == mv.src_y - mv.dst_y
    IN  IF InBounds(c)
        THEN [cur EXCEPT !.Empty = FALSE, !.dx = Put(@, c, mvdx), !.dy = Put(@, c, mvdy)]
        ELSE [cur EXCEPT !.Empty = FALSE]

RECURSIVE AggregateFrom(_, _, _)
AggregateFrom(cur, mvs, i) ==
    IF i > Len(mvs) THEN cur ELSE AggregateFrom(AggregateOne(cur, mvs[i]), mvs, i + 1)

\* the loop of lines 237-252
Aggregate(cur, mvs) == AggregateFrom(cur, mvs, 1)

\* InterpolateFlow with next.dx, next.dy mistyped as prev.dx, prev.dy
InterpolateFlow_prevTwice(gap, p, n) ==
    [gap EXCEPT
        !.Empty = FALSE,
        !.dx = [c \in (DOMAIN gap.dx) \cup ShapeCells(gap.Shape) |->
                    IF c \in ShapeCells(gap.Shape)
                    THEN CDiv(Cell(p.dx, c) + Cell(p.dx, c), 2) ELSE gap.dx[c]],
        !.dy = [c \in (DOMAIN gap.dy) \cup ShapeCells(gap.Shape) |->
                    IF c \in ShapeCells(gap.Shape)
                    THEN CDiv(Cell(p.dy, c) + Cell(p.dy, c), 2) ELSE gap.dy[c]]]

\* InterpolateFlow with a division that rounds down
InterpolateFlow_floor(gap, p, n) ==
    [gap EXCEPT
        !.Empty = FALSE,
        !.dx = [c \in (DOMAIN gap.dx) \cup ShapeCells(gap.Shape) |->
                    IF c \in ShapeCells(gap.Shape)
                    THEN (Cell(p.dx, c) + Cell(n.dx, c)) \div 2 ELSE gap.dx[c]],
        !.dy = [c \in (DOMAIN gap.dy) \cup ShapeCells(gap.Shape) |->
                    IF c \in ShapeCells(gap.Shape)
                    THEN (Cell(p.dy, c) + Cell(n.dy, c)) \div 2 ELSE gap.dy[c]]]

\* InterpolateFlow taking over the next frame's timestamp and picture type
InterpolateFlow_copiesMeta(gap, p, n) ==
    [gap EXCEPT
        !.Empty = FALSE,
        !.Pts = n.Pts,
        !.PictType = n.PictType,
        !.dx = [c \in (DOMAIN gap.dx) \cup ShapeCells(gap.Shape) |->
                    IF c \in ShapeCells(gap.Shape)
                    THEN CDiv(Cell(p.dx, c) + Cell(n.dx, c), 2) ELSE gap.dx[c]],
        !.dy = [c \in (DOMAIN gap.dy) \cup ShapeCells(gap.Shape) |->
                    IF c \in ShapeCells(gap.Shape)
                    THEN CDiv(Cell(p.dy, c) + Cell(n.dy, c), 2) ELSE gap.dy[c]]]

\* FrameInfo::InterpolateFlow (lines 179-190), called on `gap`
InterpolateFlow(gap, p, n) ==
    [gap EXCEPT
        !.Empty = FALSE,
        !.dx = [c \in (DOMAIN gap.dx) \cup ShapeCells(gap.Shape) |->
                    IF c \in ShapeCells(gap.Shape)
                    THEN CDiv(Cell(p.dx, c) + Cell(n.dx, c), 2) ELSE gap.dx[c]],
        !.dy = [c \in (DOMAIN gap.dy) \cup ShapeCells(gap.Shape) |->
                    IF c \in ShapeCells(gap.Shape)
                    THEN CDiv(Cell(p.dy, c) + Cell(n.dy, c), 2) ELSE gap.dy[c]]]

\* FrameInfo::Print (lines 192-211): the header's timestamp, index, picture
\* type and shape, then the dx rows and the dy rows over the shape
FrameInfo_Print(f) ==
    [Pts |-> f.Pts, FrameIndex |-> f.FrameIndex, PictType |-> f.PictType,
     output_type |-> "arranged", Shape |-> f.Shape,
     dx |-> [c \in ShapeCells(f.Shape) |-> Cell(f.dx, c)],
     dy |-> [c \in ShapeCells(f.Shape) |-> Cell(f.dy, c)]]

\* the loops `for i < prev.size(): prev[i].Print()` (lines 263-264, 272-273)
PrintAll(buf) == [i \in 1 .. Len(buf) |-> FrameInfo_Print(buf[i])]

\* line 256 without the test of prev.front().Empty
InterpolationFires_ignoresFront(buf, mvs) == mvs # <<>> /\ Len(buf) = 2

\* line 256: the buffer holds two frames and the first carries vectors
InterpolationFires(buf, mvs) == mvs # <<>> /\ Len(buf) = 2 /\ buf[1].Empty = FALSE

\* output_vectors_std without prev.clear() (line 266)
output_vectors_std_noClear(idx, mvs, buf, o) ==
    LET cur == Aggregate(NewFrameInfo(idx, pts, pictType,
                                      ShapeOf(frameWidth, frameHeight)), mvs)
        o1  == IF mvs = <<>> THEN o
               ELSE IF InterpolationFires(buf, mvs)
                    THEN Append(o, FrameInfo_Print(InterpolateFlow(buf[2], buf[1], cur)))
                    ELSE o \o PrintAll(buf)
        o2  == IF mvs = <<>> THEN o1 ELSE Append(o1, FrameInfo_Print(cur))
        o3  == IF idx = -1 THEN o2 \o PrintAll(buf) ELSE o2
    IN  [prev |-> Append(buf, cur), out |-> o3]

\* output_vectors_std clearing the buffer only after an interpolation
output_vectors_std_clearsAfterGapOnly(idx, mvs, buf, o) ==
    LET cur == Aggregate(NewFrameInfo(idx, pts, pictType,
                                      ShapeOf(frameWidth, frameHeight)), mvs)
        o1  == IF mvs = <<>> THEN o
               ELSE IF InterpolationFires(buf, mvs)
                    THEN Append(o, FrameInfo_Print(InterpolateFlow(buf[2], buf[1], cur)))
                    ELSE o \o PrintAll(buf)
        b1  == IF InterpolationFires(buf, mvs) THEN <<>> ELSE buf
        o2  == IF mvs = <<>> THEN o1 ELSE Append(o1, FrameInfo_Print(cur))
        o3  == IF idx = -1 THEN o2 \o PrintAll(b1) ELSE o2
    IN  [prev |-> Append(b1, cur), out |-> o3]

\* output_vectors_std printing prev.front() as well when it interpolates
output_vectors_std_printsPrev(idx, mvs, buf, o) ==
    LET cur == Aggregate(NewFrameInfo(idx, pts, pictType,
                                      ShapeOf(frameWidth, frameHeight)), mvs)
        o1  == IF mvs = <<>> THEN o
               ELSE IF InterpolationFires(buf, mvs)
                    THEN o \o << FrameInfo_Print(buf[1]),
                                 FrameInfo_Print(InterpolateFlow(buf[2], buf[1], cur)) >>
                    ELSE o \o PrintAll(buf)
        b1  == IF mvs = <<>> THEN buf ELSE <<>>
        o2  == IF mvs = <<>> THEN o1 ELSE Append(o1, FrameInfo_Print(cur))
        o3  == IF idx = -1 THEN o2 \o PrintAll(b1) ELSE o2
    IN  [prev |-> Append(b1, cur), out |-> o3]

\* output_vectors_std (lines 227-277), called with main's pts, pictType and
\* stream size: the buffer and the output after the call
output_vectors_std(idx, mvs, buf, o) ==
    LET cur == Aggregate(NewFrameInfo(idx, pts, pictType,
                                      ShapeOf(frameWidth, frameHeight)), mvs)
        o1  == IF mvs = <<>> THEN o
               ELSE IF InterpolationFires(buf, mvs)
                    THEN Append(o, FrameInfo_Print(InterpolateFlow(buf[2], buf[1], cur)))
                    ELSE o \o PrintAll(buf)
        b1  == IF mvs = <<>> THEN buf ELSE <<>>
        o2  == IF mvs = <<>> THEN o1 ELSE Append(o1, FrameInfo_Print(cur))
        o3  == IF idx = -1 THEN o2 \o PrintAll(b1) ELSE o2
    IN  [prev |-> Append(b1, cur), out |-> o3]

\* one vector line of output_vectors_raw (lines 219-223)
RawLine(mv) == << mv.src_x, mv.src_y, mv.src_x - mv.dst_x, mv.src_y - mv.dst_y >>

\* output_vectors_raw with a loop that stops one vector early
output_vectors_raw_stopsEarly(idx, p, t, mvs) ==
    [Pts |-> p, FrameIndex |-> idx, PictType |-> t, output_type |-> "raw",
     Shape |-> << Len(mvs), 4 >>,
     lines |-> [i \in 1 .. Len(mvs) - 1 |-> RawLine(mvs[i])]]

\* output_vectors_raw (lines 214-225): the header, then a line per vector
output_vectors_raw(idx, p, t, mvs) ==
    [Pts |-> p, FrameIndex |-> idx, PictType |-> t, output_type |-> "raw",
     Shape |-> << Len(mvs), 4 >>,
     lines |-> [i \in 1 .. Len(mvs) |-> RawLine(mvs[i])]]

-----------------------------------------------------------------------------
(* main's start-up: the command line and ffmpeg_init (lines 36-80, 282-303) *)

\* the loop of lines 284-290 over the arguments from the i-th on
RECURSIVE ParseArgs(_, _, _)
ParseArgs(args, i, acc) ==
    IF i > Len(args) THEN acc
    ELSE ParseArgs(args, i + 1,
                   IF args[i] = "--raw" THEN [acc EXCEPT !.raw = TRUE]
                                        ELSE [acc EXCEPT !.path = args[i]])

\* the ways ffmpeg_init throws (lines 46-79), in the order it tests them
\* a null pointer
NULL == "NULL"

InitFailures ==
    { "Couldn't open file. Possibly it doesn't exist.",
      "Stream information not found.",
      "Codec not found or cannot open codec.",
      "Video stream not found." }

-----------------------------------------------------------------------------
(* The frame source: process_frame and read_packets (lines 82-130) *)

\* an AVPacket: its stream and the bytes left in it
Packet(si, sz) == [stream_index |-> si, size |-> sz]

\* av_free_packet: the data is released, no bytes are left
av_free_packet(p) == [p EXCEPT !.size = 0]

\* av_frame_alloc, av_frame_unref: the frame holds nothing
BlankFrame ==
    [has_side_data |-> FALSE, mvs |-> <<>>,
     pkt_pts |-> AV_NOPTS_VALUE, pkt_dts |-> AV_NOPTS_VALUE, pict_type |-> "?"]

\* the timestamps and the picture type the decoder gives a frame.  Frames
\* without side data carry no timestamp at all; a frame with vectors carries
\* both, or pkt_dts alone.
Stamps(l) ==
    IF l = <<>> THEN [pkt_pts |-> AV_NOPTS_VALUE, pkt_dts |-> AV_NOPTS_VALUE, pict_type |-> "I"]
    ELSE IF Len(l) = 1 THEN [pkt_pts |-> 40, pkt_dts |-> 30, pict_type |-> "P"]
    ELSE [pkt_pts |-> AV_NOPTS_VALUE, pkt_dts |-> 90, pict_type |-> "B"]

\* the frames the decoder may hand back: without side data, or with a list
Frames ==
    { [has_side_data |-> l # <<>>, mvs |-> l, pkt_pts |-> Stamps(l).pkt_pts,
       pkt_dts |-> Stamps(l).pkt_dts, pict_type |-> Stamps(l).pict_type] :
      l \in VectorLists \cup {<<>>} }

FFMIN(a, b) == IF a > b THEN b ELSE a

\* process_frame returning true on a decode error
process_frame_errorIsFrame(p, ret, got_frame) ==
    IF ret < 0
    THEN [pkt |-> p, result |-> TRUE]
    ELSE [pkt |-> [p EXCEPT !.size = p.size - FFMIN(ret, p.size)],
          result |-> got_frame > 0]

\* process_frame (lines 82-95) for a decoder that answers (ret, got_frame):
\* the packet after the call and the value returned
process_frame(p, ret, got_frame) ==
    IF ret < 0
    THEN [pkt |-> p, result |-> FALSE]
    ELSE [pkt |-> [p EXCEPT !.size = p.size - FFMIN(ret, p.size)],
          result |-> got_frame > 0]

\* what avcodec_decode_video2 may answer for a packet of `size` bytes: an
\* error, any number of bytes up to a bogus one past the end, a frame or none
DecoderRets(size) == -1 .. size + 1
DecoderGots == IF Len(decoded) < MaxFrames THEN {0, 1} ELSE {0}

\* process_frame is not running: its locals hold nothing
NoAttempt == [ret |-> 0, got_frame |-> 0]

\* the state main starts in, the command line being one of `args`
InitWith(args) ==
    /\ pc = "main"
    /\ argv \in args
    /\ ARG_OUTPUT_RAW_MOTION_VECTORS = FALSE
    /\ ARG_VIDEO_PATH = NULL
    /\ fatal = "none"
    /\ initialized = FALSE
    /\ pkt = Packet(0, 0)
    /\ pktCopy = Packet(0, 0)
    /\ dec = NoAttempt
    /\ eof = FALSE
    /\ nPackets = 0
    /\ pFrame = BlankFrame
    /\ pts \in GarbagePts
    /\ pictType \in GarbagePictTypes
    /\ motionVectors = <<>>
    /\ frameIndex = 1
    /\ frameWidth = 0
    /\ frameHeight = 0
    /\ prev = <<>>
    /\ out = <<>>
    /\ decoded = <<>>
    /\ resolved = <<>>

\* the program run in grid mode
Init == InitWith(GridArgvs)

\* the program run with --raw
InitRaw == InitWith(RawArgvs)

\* the program run either way
InitAll == InitWith(GridArgvs \cup RawArgvs)

\* main, lines 282-295: the arguments are read; without a path the usage
\* text goes to stderr and the process exits with status 1
main_args ==
    /\ pc = "main"
    /\ LET a == ParseArgs(argv, 1, [raw |-> FALSE, path |-> NULL]) IN
       /\ ARG_OUTPUT_RAW_MOTION_VECTORS' = a.raw
       /\ ARG_VIDEO_PATH' = a.path
       /\ IF a.path = NULL
          THEN fatal' = "Usage: mpegflow [--raw] videoPath" /\ pc' = "exited"
          ELSE fatal' = fatal /\ pc' = "ffmpeg_init"
    /\ UNCHANGED <<argv, initialized, pkt, pktCopy, dec, eof, nPackets, pFrame, pts,
                   pictType, motionVectors, frameIndex, frameWidth, frameHeight,
                   prev, out, decoded, resolved>>

\* ffmpeg_init carrying on after a failed test instead of throwing
ffmpeg_init_ignoresFailure ==
    /\ pc = "ffmpeg_init"
    /\ \/ \E e \in InitFailures : fatal' = e
       \/ fatal' = fatal
    /\ \E d \in Dims : frameWidth' = d[1] /\ frameHeight' = d[2]
    /\ pc' = "read_packets"
    /\ UNCHANGED <<argv, ARG_OUTPUT_RAW_MOTION_VECTORS, ARG_VIDEO_PATH, initialized,
                   pkt, pktCopy, dec, eof, nPackets, pFrame, pts, pictType,
                   motionVectors, frameIndex, prev, out, decoded, resolved>>

\* ffmpeg_init (lines 36-80), called at line 303: a failed test throws, and
\* the exception, which nothing catches, ends the process; otherwise the
\* first video stream's size is stored
ffmpeg_init ==
    /\ pc = "ffmpeg_init"
    /\ \/ /\ \E e \in InitFailures : fatal' = e
          /\ pc' = "terminated"
          /\ UNCHANGED <<frameWidth, frameHeight>>
       \/ /\ \E d \in Dims : frameWidth' = d[1] /\ frameHeight' = d[2]
          /\ fatal' = fatal
          /\ pc' = "read_packets"
    /\ UNCHANGED <<argv, ARG_OUTPUT_RAW_MOTION_VECTORS, ARG_VIDEO_PATH, initialized,
                   pkt, pktCopy, dec, eof, nPackets, pFrame, pts, pictType,
                   motionVectors, frameIndex, prev, out, decoded, resolved>>

\* read_packets keeping the pending packet for another attempt whenever an
\* attempt gave no frame and bytes are left in it
DrainPacket_retriesWhileBytesLeft ==
    /\ pc = "read_packets"
    /\ initialized
    /\ \E ret \in DecoderRets(pktCopy.size), got \in DecoderGots :
         LET r == process_frame(pktCopy, ret, got) IN
         /\ dec' = [ret |-> ret, got_frame |-> got]
         /\ pktCopy' = r.pkt
         /\ IF r.result
            THEN /\ \E f \in Frames : pFrame' = f
                 /\ pc' = "read_frame"
                 /\ UNCHANGED <<pkt, initialized>>
            ELSE IF r.pkt.size > 0
            THEN /\ pFrame' = BlankFrame
                 /\ pc' = "read_packets"
                 /\ UNCHANGED <<pkt, initialized>>
            ELSE /\ pFrame' = BlankFrame
                 /\ pkt' = av_free_packet(pkt)
                 /\ initialized' = FALSE
                 /\ pc' = "av_read_frame"
    /\ UNCHANGED <<eof, nPackets, motionVectors, frameIndex, frameWidth, frameHeight,
                   prev, out, decoded, argVars,
                   pts, pictType, resolved>>

\* read_packets, lines 104-113: the pending packet is fed to the decoder; a
\* frame returns true, anything else frees the packet
DrainPacket ==
    /\ pc = "read_packets"
    /\ initialized
    /\ \E ret \in DecoderRets(pktCopy.size), got \in DecoderGots :
         LET r == process_frame(pktCopy, ret, got) IN
         /\ dec' = [ret |-> ret, got_frame |-> got]
         /\ pktCopy' = r.pkt
         /\ IF r.result
            THEN /\ \E f \in Frames : pFrame' = f
                 /\ pc' = "read_frame"
                 /\ UNCHANGED <<pkt, initialized>>
            ELSE /\ pFrame' = BlankFrame
                 /\ pkt' = av_free_packet(pkt)
                 /\ initialized' = FALSE
                 /\ pc' = "av_read_frame"
    /\ UNCHANGED <<eof, nPackets, motionVectors, frameIndex, frameWidth, frameHeight,
                   prev, out, decoded, argVars,
                   pts, pictType, resolved>>

\* read_packets, line 104 with no pending packet
NoPendingPacket ==
    /\ pc = "read_packets"
    /\ ~initialized
    /\ pc' = "av_read_frame"
    /\ UNCHANGED <<initialized, pkt, pktCopy, dec, eof, nPackets, pFrame, motionVectors,
                   frameIndex, frameWidth, frameHeight, prev, out, decoded, argVars,
                   pts, pictType, resolved>>

\* read_packets without the test of the packet's stream (lines 121-126)
ReadPacket_keepsNonTarget ==
    /\ pc = "av_read_frame"
    /\ ~eof
    /\ nPackets < MaxPackets
    /\ \E si \in {videoStreamIndex, videoStreamIndex + 1}, sz \in 1 .. MaxPktSize :
         /\ pktCopy' = Packet(si, sz)
         /\ pkt' = Packet(si, sz)
         /\ initialized' = TRUE
    /\ nPackets' = nPackets + 1
    /\ pc' = "read_packets"
    /\ dec' = NoAttempt
    /\ UNCHANGED <<eof, pFrame, motionVectors, frameIndex, frameWidth, frameHeight,
                   prev, out, decoded, argVars, pts, pictType, resolved>>

\* read_packets, lines 115-126: the container hands out a packet
ReadPacket ==
    /\ pc = "av_read_frame"
    /\ ~eof
    /\ nPackets < MaxPackets
    /\ \E si \in {videoStreamIndex, videoStreamIndex + 1}, sz \in 1 .. MaxPktSize :
         /\ pktCopy' = Packet(si, sz)
         /\ IF si # videoStreamIndex
            THEN /\ pkt' = av_free_packet(Packet(si, sz))
                 /\ initialized' = FALSE
            ELSE /\ pkt' = Packet(si, sz)
                 /\ initialized' = TRUE
    /\ nPackets' = nPackets + 1
    /\ pc' = "read_packets"
    /\ dec' = NoAttempt
    /\ UNCHANGED <<eof, pFrame, motionVectors, frameIndex, frameWidth, frameHeight,
                   prev, out, decoded, argVars,
                   pts, pictType, resolved>>

\* read_packets, lines 115-117: the container has no packet; the loop is left
ReadPacketFails ==
    /\ pc = "av_read_frame"
    /\ eof' = TRUE
    /\ pkt' = av_free_packet(pkt)
    /\ pc' = "flush"
    /\ dec' = NoAttempt
    /\ UNCHANGED <<initialized, pktCopy, nPackets, pFrame, motionVectors, frameIndex,
                   frameWidth, frameHeight, prev, out, decoded, argVars,
                   pts, pictType, resolved>>

\* read_packets, line 129: the final attempt, on the blank packet
FlushDecoder ==
    /\ pc = "flush"
    /\ \E ret \in DecoderRets(pkt.size), got \in DecoderGots :
         LET r == process_frame(pkt, ret, got) IN
         /\ dec' = [ret |-> ret, got_frame |-> got]
         /\ pkt' = r.pkt
         /\ IF r.result
            THEN /\ \E f \in Frames : pFrame' = f
                 /\ pc' = "read_frame"
            ELSE /\ pFrame' = BlankFrame
                 /\ pc' = "eos"
    /\ UNCHANGED <<initialized, pktCopy, eof, nPackets, motionVectors, frameIndex,
                   frameWidth, frameHeight, prev, out, decoded, argVars,
                   pts, pictType, resolved>>

\* pts as line 139 resolves it: pkt_pts, else pkt_dts, else the old pts + 1
ResolvePts(f, old) ==
    IF f.pkt_pts # AV_NOPTS_VALUE THEN f.pkt_pts
    ELSE IF f.pkt_dts # AV_NOPTS_VALUE THEN f.pkt_dts
    ELSE old + 1

\* read_frame, lines 137-154: the picture type, the timestamp, and the vectors
\* of the frame's side data, or none
read_frame ==
    /\ pc = "read_frame"
    /\ pictType' = pFrame.pict_type
    /\ pts' = ResolvePts(pFrame, pts)
    /\ motionVectors' = IF pFrame.has_side_data THEN pFrame.mvs ELSE <<>>
    /\ decoded' = Append(decoded, motionVectors')
    /\ resolved' = Append(resolved, [pkt_pts |-> pFrame.pkt_pts, pkt_dts |-> pFrame.pkt_dts,
                                     pts |-> pts', pictType |-> pictType'])
    /\ pc' = "loop_body"
    /\ dec' = NoAttempt
    /\ UNCHANGED <<initialized, pkt, pktCopy, eof, nPackets, pFrame, frameIndex,
                   frameWidth, frameHeight, prev, out, argVars>>

\* a call of output_vectors_std from main: its effect, or, when a vector is
\* written outside the arrays, possibly the end of the process
CallOutputVectorsStd(idx, next_pc) ==
    \/ LET r == output_vectors_std(idx, motionVectors, prev, out) IN
       /\ prev' = r.prev
       /\ out' = r.out
       /\ pc' = next_pc
    \/ /\ OutOfBounds(motionVectors, ShapeOf(frameWidth, frameHeight))
       /\ pc' = "crashed"
       /\ UNCHANGED <<prev, out>>

\* main, lines 309-315: the loop body in raw or in grid mode, then frameIndex++
LoopBody ==
    /\ pc = "loop_body"
    /\ IF ARG_OUTPUT_RAW_MOTION_VECTORS
       THEN /\ out' = Append(out, output_vectors_raw(frameIndex, pts, pictType, motionVectors))
            /\ pc' = "read_packets"
            /\ prev' = prev
       ELSE CallOutputVectorsStd(frameIndex, "read_packets")
    /\ frameIndex' = IF pc' = "crashed" THEN frameIndex ELSE frameIndex + 1
    /\ UNCHANGED <<initialized, pkt, pktCopy, dec, eof, nPackets, pFrame, motionVectors,
                   frameWidth, frameHeight, decoded, argVars, pts, pictType, resolved>>

\* main, lines 316-317: in grid mode the call after the loop, with index -1
\* and the vectors left in motionVectors by the last decoded frame
EndOfStream ==
    /\ pc = "eos"
    /\ IF ARG_OUTPUT_RAW_MOTION_VECTORS = FALSE
       THEN CallOutputVectorsStd(-1, "done")
       ELSE pc' = "done" /\ UNCHANGED <<prev, out>>
    /\ dec' = NoAttempt
    /\ UNCHANGED <<initialized, pkt, pktCopy, eof, nPackets, pFrame, motionVectors,
                   frameIndex, frameWidth, frameHeight, decoded, argVars, pts, pictType,
                   resolved>>

Next ==
    \/ main_args
    \/ ffmpeg_init
    \/ DrainPacket
    \/ NoPendingPacket
    \/ ReadPacket
    \/ ReadPacketFails
    \/ FlushDecoder
    \/ read_frame
    \/ LoopBody
    \/ EndOfStream

Spec == Init /\ [][Next]_vars

SpecRaw == InitRaw /\ [][Next]_vars

\* the program in raw mode, running on: one thread, which never stops by
\* itself before main returns
SpecRawFair == InitRaw /\ [][Next]_vars /\ WF_vars(Next)

SpecAll == InitAll /\ [][Next]_vars

-----------------------------------------------------------------------------
(* Vocabulary of the properties *)

\* frames the output stage has taken in
Processed == frameIndex - 1

\* decoded frame k carries motion vectors
NonEmpty(k) == decoded[k] # <<>>

\* frames k-1, k, k+1 are (non-empty, empty, non-empty) and all three were taken in
Triple(k) ==
    /\ k - 1 >= 1
    /\ k + 1 <= Processed
    /\ NonEmpty(k - 1) /\ ~NonEmpty(k) /\ NonEmpty(k + 1)

\* the places of the output where frame k was printed
OutIdx(k) == {i \in 1 .. Len(out) : out[i].FrameIndex = k}

\* the stream's shape and its cells
TheShape == ShapeOf(frameWidth, frameHeight)
TheCells == ShapeCells(TheShape)

\* the grids printed for a frame of stream size d whose vectors are l and
\* whose grid is the one aggregated from l, untouched
OwnGridOf[d \in Dims, l \in VectorLists \cup {<<>>}] ==
    FrameInfo_Print(Aggregate(NewFrameInfo(0, 0, "?", ShapeOf(d[1], d[2])), l))

\* the resolved timestamp and picture type frame k is printed with; the call
\* at the end of the stream (k = -1) has those of the last decoded frame
MetaOf(k) == resolved[IF k >= 1 THEN k ELSE Len(resolved)]

\* what printing frame k's own aggregated grid gives
OwnGrid(k, mvs) ==
    [OwnGridOf[<<frameWidth, frameHeight>>, mvs] EXCEPT
        !.FrameIndex = k, !.Pts = MetaOf(k).pts, !.PictType = MetaOf(k).pictType]

\* v is the mean of p and n up to the rounding an integer forces
IsAverage(v, p, n) == 2 * v - (p + n) \in {-1, 0, 1}

\* v is s/2 rounded toward zero
IsTruncHalf(v, s) == IF s >= 0 THEN 2 * v <= s /\ s <= 2 * v + 1
                               ELSE 2 * v >= s /\ s >= 2 * v - 1

\* v is floor(s/2)
IsFloorHalf(v, s) == 2 * v <= s /\ s <= 2 * v + 1

-----------------------------------------------------------------------------
(* C1: in grid mode, for every three consecutive decoded frames (non-empty,  *)
(* empty, non-empty) the middle frame is printed, once, and every cell's dx  *)
(* and dy is the average of the same cell of its two neighbours as printed.  *)
C1_GapIsAverage ==
    \A k \in 1 .. Processed :
        Triple(k) =>
            /\ Cardinality(OutIdx(k)) = 1
            /\ OutIdx(k - 1) # {} /\ OutIdx(k + 1) # {}
            /\ \A i \in OutIdx(k), a \in OutIdx(k - 1), b \in OutIdx(k + 1) :
                 \A c \in TheCells :
                    /\ IsAverage(out[i].dx[c], out[a].dx[c], out[b].dx[c])
                    /\ IsAverage(out[i].dy[c], out[a].dy[c], out[b].dy[c])

\* a gap frame was printed with cell (0,0) dx 15, between neighbours with 10 and 20
C1_Witness ==
    \E k \in 1 .. Processed :
        /\ Triple(k)
        /\ <<0, 0>> \in TheCells
        /\ \E i \in OutIdx(k), a \in OutIdx(k - 1), b \in OutIdx(k + 1) :
             out[a].dx[<<0, 0>>] = 10 /\ out[b].dx[<<0, 0>>] = 20 /\ out[i].dx[<<0, 0>>] = 15

(* C2: pass-through.  A frame that is not the middle of a (non-empty, empty,  *)
(* non-empty) run is never printed with anything but the grid aggregated     *)
(* from its own vectors (all zero for an empty frame), and it is printed: by *)
(* the time a later non-empty frame was taken in, or the stream has ended,   *)
(* every earlier frame is in the output.  So with no such run in the stream  *)
(* every printed grid is the frame's own.                                    *)
C2_PassThrough ==
    /\ \A i \in 1 .. Len(out) :
         LET k == out[i].FrameIndex IN
         /\ (k >= 1 /\ ~Triple(k)) => out[i] = OwnGrid(k, decoded[k])
         /\ k < 1 => out[i] = OwnGrid(k, decoded[Len(decoded)])
    /\ \A k \in 1 .. Processed :
         (NonEmpty(k) \/ pc = "done") => \A j \in 1 .. k : OutIdx(j) # {}

\* two empty frames after a non-empty one, then a non-empty one: both empty
\* frames are in the output, all zero
C2_Witness ==
    \E k \in 2 .. Processed :
        /\ k + 2 <= Processed
        /\ NonEmpty(k - 1) /\ ~NonEmpty(k) /\ ~NonEmpty(k + 1) /\ NonEmpty(k + 2)
        /\ TheCells # {}
        /\ \E i \in OutIdx(k), j \in OutIdx(k + 1) :
             /\ i < j
             /\ \A c \in TheCells : out[i].dx[c] = 0 /\ out[i].dy[c] = 0
             /\ \A c \in TheCells : out[j].dx[c] = 0 /\ out[j].dy[c] = 0

(* C3, as amended: every cell of a synthesized gap frame holds (p + n) / 2     *)
(* rounded toward zero, p and n being the printed values of the same cell in *)
(* the previous and the next frame; dx and dy separately.                    *)
C3_GapIsTruncatedHalf ==
    \A k \in 1 .. Processed :
        Triple(k) =>
            \A i \in OutIdx(k), a \in OutIdx(k - 1), b \in OutIdx(k + 1) :
                \A c \in TheCells :
                    /\ IsTruncHalf(out[i].dx[c], out[a].dx[c] + out[b].dx[c])
                    /\ IsTruncHalf(out[i].dy[c], out[a].dy[c] + out[b].dy[c])

\* C3 as claimed: the synthesized value is floor((p + n) / 2)
C3_Original ==
    \A k \in 1 .. Processed :
        Triple(k) =>
            \A i \in OutIdx(k), a \in OutIdx(k - 1), b \in OutIdx(k + 1) :
                \A c \in TheCells :
                    /\ IsFloorHalf(out[i].dx[c], out[a].dx[c] + out[b].dx[c])
                    /\ IsFloorHalf(out[i].dy[c], out[a].dy[c] + out[b].dy[c])

\* a gap frame was synthesized from a negative odd sum and from a positive odd sum
C3_Witness ==
    \E k \in 1 .. Processed :
        /\ Triple(k)
        /\ \E i \in OutIdx(k), a \in OutIdx(k - 1), b \in OutIdx(k + 1) :
             /\ \E c \in TheCells :
                    out[a].dy[c] + out[b].dy[c] < 0 /\ (out[a].dy[c] + out[b].dy[c]) % 2 = 1
             /\ \E c \in TheCells :
                    out[a].dy[c] + out[b].dy[c] > 0 /\ (out[a].dy[c] + out[b].dy[c]) % 2 = 1

\* the frames taken in since the last non-empty one, that one included; all
\* of them when none was non-empty
TailLen ==
    LET ne == {k \in 1 .. Processed : NonEmpty(k)} IN
    IF ne = {} THEN Processed
    ELSE Processed - (CHOOSE k \in ne : \A j \in ne : j <= k) + 1

(* C4, as amended: while frames arrive the buffer holds exactly the frames    *)
(* taken in since the last non-empty frame, that frame included (every frame *)
(* so far when none was non-empty): one more than the current run of empty   *)
(* frames, which is above two after two consecutive empty frames.  The call  *)
(* at the end of the stream adds one entry.                                  *)
C4_BufferIsTail ==
    /\ pc # "done" => Len(prev) = TailLen
    /\ pc = "done" => Len(prev) <= TailLen + 1

\* C4 as claimed: the buffer holds at most two frames
C4_Original == Len(prev) <= 2

\* a non-empty frame and two empty frames after it are in the buffer
C4_Witness ==
    /\ pc # "done"
    /\ Len(prev) = 3
    /\ ~prev[1].Empty /\ prev[2].Empty /\ prev[3].Empty

\* the step of the loop body in which line 256 holds
InterpolationStep ==
    /\ pc = "loop_body"
    /\ pc' = "read_packets"
    /\ motionVectors # <<>>
    /\ Len(prev) = 2
    /\ ~prev[1].Empty

(* C5, as amended: when a non-empty frame cur arrives while the buffer holds  *)
(* exactly two entries whose first (prev) is non-empty, that step prints two *)
(* frames: the second entry (gap) with its interpolated values, then cur     *)
(* with its own grid.  prev is not printed in that step: it is in the output *)
(* since the step in which it arrived.                                       *)
C5_GapThenCur ==
    [][InterpolationStep =>
        /\ Len(out') = Len(out) + 2
        /\ SubSeq(out', 1, Len(out)) = out
        /\ out'[Len(out) + 1].FrameIndex = prev[2].FrameIndex
        /\ out'[Len(out) + 1].FrameIndex = frameIndex - 1
        /\ \A c \in TheCells :
              IsAverage(out'[Len(out) + 1].dx[c],
                        FrameInfo_Print(prev[1]).dx[c], out'[Len(out) + 2].dx[c])
        /\ out'[Len(out) + 2] = OwnGrid(frameIndex, motionVectors)
        /\ \E i \in 1 .. Len(out) : out[i] = FrameInfo_Print(prev[1])
      ]_vars

\* C5 as claimed: the step prints prev unchanged, then gap, then cur
C5_Original ==
    [][InterpolationStep =>
        /\ Len(out') = Len(out) + 3
        /\ out'[Len(out) + 1] = FrameInfo_Print(prev[1])
        /\ out'[Len(out) + 2].FrameIndex = prev[2].FrameIndex
        /\ out'[Len(out) + 3].FrameIndex = frameIndex
      ]_vars

\* the frame just taken in closed a (non-empty, empty, non-empty) run, and the
\* output ends with the gap frame and that frame
C5_Witness ==
    /\ pc = "read_packets"
    /\ Triple(Processed - 1)
    /\ Len(out) >= 3
    /\ out[Len(out) - 1].FrameIndex = Processed - 1
    /\ out[Len(out)].FrameIndex = Processed
    /\ TheCells # {}

\* C6 as claimed: at the end of the stream exactly the frames held in the
\* buffer are printed, unchanged and in buffer order, whichever the last frame
C6_Original ==
    [][(pc = "eos" /\ pc' = "done") => out' = out \o PrintAll(prev)]_vars

\* C7 as claimed: an attempt that yields no frame while the packet has bytes
\* left is followed by another attempt on the same packet; the next packet is
\* requested only when no bytes are left
C7_Original ==
    [][(/\ pc = "read_packets"
        /\ initialized
        /\ dec'.ret >= 0
        /\ pc' # "read_frame"
        /\ pktCopy'.size > 0)
       => (pc' = "read_packets" /\ initialized' /\ pkt' = pkt)]_vars

(* C8: a decode error never ends the run.  An attempt on a pending packet    *)
(* that fails with an error sends the pull on to the next packet, with the   *)
(* output and the buffer untouched; and a pull reports "no frame" only from  *)
(* the final attempt, which is reached only from a request the container     *)
(* answered with "no packet".                                                *)
C8_ErrorsDoNotAbort ==
    [][/\ (pc = "read_packets" /\ initialized /\ dec'.ret < 0)
            => (pc' = "av_read_frame" /\ out' = out /\ prev' = prev)
       /\ pc' = "eos" => (pc = "flush" /\ eof)
       /\ pc' = "flush" => (pc = "av_read_frame" /\ eof')
      ]_vars

\* an attempt has failed with an error while the container still has packets,
\* and the pull is about to request the next one
C8_Witness ==
    /\ pc = "av_read_frame"
    /\ dec.ret < 0
    /\ ~eof
    /\ nPackets < MaxPackets

\* the row and the column the specification gives for a source coordinate
SpecClip(src, n) == Max(0, Min(src \div GRID_STEP, n - 1))

\* C9 as claimed: every cell the aggregator writes lies in
\* [0, rows-1] x [0, cols-1], for every stream size and source coordinate
C9_Original ==
    \A i \in 1 .. Len(prev) :
        \A c \in DOMAIN prev[i].dx :
            /\ 0 <= c[1] /\ c[1] <= prev[i].Shape[1] - 1
            /\ 0 <= c[2] /\ c[2] <= prev[i].Shape[2] - 1

\* C10 as claimed, for a stream of at least one cell: each vector's
\* displacement is written to row clip(floor(src_y/16), 0, rows-1) and column
\* clip(floor(src_x/16), 0, cols-1), a coordinate below zero going to index 0
C10_Original ==
    \A i \in 1 .. Len(prev) :
        LET f == prev[i] IN
        (f.FrameIndex >= 1 /\ ShapeCells(f.Shape) # {}) =>
            \A m \in 1 .. Len(decoded[f.FrameIndex]) :
                LET mv == decoded[f.FrameIndex][m]
                    c  == << SpecClip(mv.src_y, f.Shape[1]), SpecClip(mv.src_x, f.Shape[2]) >>
                IN  /\ c \in DOMAIN f.dx
                    /\ \E m2 \in 1 .. Len(decoded[f.FrameIndex]) :
                         LET w == decoded[f.FrameIndex][m2] IN
                         /\ f.dx[c] = w.src_x - w.dst_x
                         /\ f.dy[c] = w.src_y - w.dst_y
                         /\ c = << SpecClip(w.src_y, f.Shape[1]), SpecClip(w.src_x, f.Shape[2]) >>

\* the vectors of decoded frame k that the aggregator sends to cell c
Hits(k, shape, c) == {m \in 1 .. Len(decoded[k]) : CellOf(decoded[k][m], shape) = c}

(* C11: in the grid aggregated from one frame's vectors, a cell that several *)
(* vectors of the frame map to holds the displacement of the last of them in *)
(* the frame's order, not a sum or a mean, and a cell no vector maps to      *)
(* holds 0 in dx and in dy.                                                  *)
C11_LastVectorWins ==
    \A i \in 1 .. Len(prev) :
        LET f == prev[i]
            k == f.FrameIndex
        IN  k >= 1 =>
            \A c \in ShapeCells(f.Shape) \cup DOMAIN f.dx :
                LET hits == Hits(k, f.Shape, c) IN
                IF hits = {}
                THEN Cell(f.dx, c) = 0 /\ Cell(f.dy, c) = 0
                ELSE LET mv == decoded[k][CHOOSE m \in hits : \A n \in hits : n <= m] IN
                     /\ Cell(f.dx, c) = mv.src_x - mv.dst_x
                     /\ Cell(f.dy, c) = mv.src_y - mv.dst_y

\* a buffered frame whose cell (0,0) two vectors map to, (4,4) then (20,0),
\* holds (20,0) there, and has a cell of the grid that no vector maps to
C11_Witness ==
    \E i \in 1 .. Len(prev) :
        LET f == prev[i] IN
        /\ f.FrameIndex >= 1
        /\ Cardinality(Hits(f.FrameIndex, f.Shape, <<0, 0>>)) = 2
        /\ Cell(f.dx, <<0, 0>>) = 20 /\ Cell(f.dy, <<0, 0>>) = 0
        /\ \E c \in ShapeCells(f.Shape) :
              Hits(f.FrameIndex, f.Shape, c) = {} /\ Cell(f.dx, c) = 0 /\ Cell(f.dy, c) = 0

(* C12: in raw mode the output is, at every moment, one record per decoded   *)
(* frame whose loop body has run, in decode order and each frame once: the   *)
(* i-th record's header carries the frame's resolved timestamp, the index i  *)
(* (counted from 1), its picture type and the number N of its vectors, and   *)
(* is followed by exactly N lines, the m-th being the m-th vector's source   *)
(* position and displacement; a frame without vectors gives the header       *)
(* alone.  When the run is over every decoded frame has its record.          *)
C12_RawOneRecordPerFrame ==
    /\ Len(out) = Processed
    /\ pc = "done" => Len(out) = Len(decoded)
    /\ \A i \in 1 .. Len(out) :
         /\ out[i].output_type = "raw"
         /\ out[i].FrameIndex = i
         /\ out[i].Pts = resolved[i].pts
         /\ out[i].PictType = resolved[i].pictType
         /\ out[i].Shape = << Len(decoded[i]), 4 >>
         /\ Len(out[i].lines) = Len(decoded[i])
         /\ \A m \in 1 .. Len(decoded[i]) :
              LET mv == decoded[i][m] IN
              out[i].lines[m] = << mv.src_x, mv.src_y, mv.src_x - mv.dst_x, mv.src_y - mv.dst_y >>

\* a raw run has ended after a frame of four vectors, a frame of none and a
\* frame of one vector, each with its record
C12_Witness ==
    /\ pc = "done"
    /\ ARG_OUTPUT_RAW_MOTION_VECTORS
    /\ Len(out) >= 3
    /\ \E i \in 1 .. Len(out) - 2 :
         /\ Len(out[i].lines) = 4
         /\ out[i + 1].Shape[1] = 0 /\ out[i + 1].lines = <<>>
         /\ Len(out[i + 2].lines) = 1

\* the run was stopped by a fatal condition
Fatal == fatal # "none"

(* C13: a fatal condition (no path on the command line, or a failed test of  *)
(* ffmpeg_init: the file cannot be opened, no stream information, the codec  *)
(* cannot be opened, no video stream) stops the run with nothing written to  *)
(* stdout and no frame decoded, with --raw and without it: the run is at its *)
(* end, and it only ever gets to the frame loop without a fatal condition.   *)
C13_FatalBeforeOutput ==
    /\ Fatal => /\ pc \in {"exited", "terminated"}
                /\ out = <<>>
                /\ decoded = <<>>
                /\ nPackets = 0
    /\ (pc = "exited") = (ARG_VIDEO_PATH = NULL /\ pc # "main")
    /\ pc = "terminated" => fatal \in InitFailures

\* ffmpeg_init found no video stream in a run with --raw
C13_Witness ==
    /\ fatal = "Video stream not found."
    /\ ARG_OUTPUT_RAW_MOTION_VECTORS
    /\ pc = "terminated"

(* C14: a packet the container hands out for another stream than the video   *)
(* stream is freed at once and marked as not pending; the pull then asks the *)
(* container for the next packet without any decode attempt in between.      *)
(* Every decode attempt of the read loop is on a packet of the video stream; *)
(* the one attempt after the loop is on the emptied packet.                  *)
C14_NonTargetDiscarded ==
    [][/\ (pc = "av_read_frame" /\ pc' = "read_packets"
            /\ pktCopy'.stream_index # videoStreamIndex)
           => (~initialized' /\ pkt'.size = 0)
       /\ (pc = "read_packets" /\ ~initialized)
           => (pc' = "av_read_frame" /\ dec' = dec /\ pFrame' = pFrame /\ decoded' = decoded)
       /\ (pc = "read_packets" /\ initialized)
           => (pktCopy.stream_index = videoStreamIndex /\ pktCopy'.stream_index = videoStreamIndex)
       /\ pc = "flush" => pkt.size = 0
      ]_vars

\* a packet of another stream was just read and discarded: nothing is pending
\* and the pull is about to ask for the next packet
C14_Witness ==
    /\ pc = "read_packets"
    /\ ~initialized
    /\ nPackets >= 1
    /\ pktCopy.stream_index # videoStreamIndex
    /\ pktCopy.size > 0
    /\ pkt.size = 0

\* the decoder gave frame k neither timestamp
NoStamp(k) == resolved[k].pkt_pts = AV_NOPTS_VALUE /\ resolved[k].pkt_dts = AV_NOPTS_VALUE

\* C15 as claimed, the first field being pkt_pts and the second pkt_dts: every
\* decoded frame's timestamp is pkt_pts when that is valid, else pkt_dts when
\* that is valid, else the timestamp resolved for the frame before it plus 1
C15_Original ==
    \A k \in 1 .. Len(resolved) :
        LET r == resolved[k] IN
        /\ r.pkt_pts # AV_NOPTS_VALUE => r.pts = r.pkt_pts
        /\ (r.pkt_pts = AV_NOPTS_VALUE /\ r.pkt_dts # AV_NOPTS_VALUE) => r.pts = r.pkt_dts
        /\ NoStamp(k) => (k >= 2 /\ r.pts = resolved[k - 1].pts + 1)

\* the frame the loop body builds from main's variables before it looks at
\* the buffer (lines 231-252)
CurFrame ==
    Aggregate(NewFrameInfo(frameIndex, pts, pictType, TheShape), motionVectors)

\* the gap frame as InterpolateFlow leaves it when line 256 holds
GapAfter == InterpolateFlow(prev[2], prev[1], CurFrame)

(* C16, as amended: synthesizing a gap frame changes that frame's dx and dy  *)
(* matrices and sets its Empty flag to false, and nothing else.  The gap is  *)
(* printed with its own timestamp, frame index, picture type and shape; the  *)
(* incoming frame is printed, and put into the buffer, with the grid         *)
(* aggregated from its own vectors and its own metadata; the previous frame  *)
(* is only read.                                                             *)
C16_OnlyGapGridAndFlag ==
    [][InterpolationStep =>
        /\ [GapAfter EXCEPT !.dx = prev[2].dx, !.dy = prev[2].dy, !.Empty = prev[2].Empty]
              = prev[2]
        /\ GapAfter.Empty = FALSE /\ prev[2].Empty = TRUE
        /\ LET g == out'[Len(out) + 1] IN
             /\ g.Pts = prev[2].Pts
             /\ g.FrameIndex = prev[2].FrameIndex
             /\ g.PictType = prev[2].PictType
             /\ g.Shape = prev[2].Shape
        /\ out'[Len(out) + 2] = OwnGrid(frameIndex, motionVectors)
        /\ prev' = << CurFrame >>
        /\ FrameInfo_Print(CurFrame) = OwnGrid(frameIndex, motionVectors)
      ]_vars

\* C16 as claimed: the synthesis changes nothing of the gap frame but its dx
\* and dy matrices
C16_Original ==
    (pc = "loop_body" /\ InterpolationFires(prev, motionVectors))
        => [GapAfter EXCEPT !.dx = prev[2].dx, !.dy = prev[2].dy] = prev[2]

\* a gap frame was printed with a synthesized value, under its own timestamp
\* and picture type, which differ from those of the frame after it
C16_Witness ==
    \E k \in 1 .. Processed :
        /\ Triple(k)
        /\ <<0, 0>> \in TheCells
        /\ \E i \in OutIdx(k) :
             /\ out[i].dx[<<0, 0>>] # 0
             /\ out[i].Pts = resolved[k].pts
             /\ out[i].PictType = resolved[k].pictType
             /\ out[i].Pts # resolved[k + 1].pts
             /\ out[i].PictType # resolved[k + 1].pictType

\* the frame indices of the output, in the order printed
EmittedIndices == [i \in 1 .. Len(out) |-> out[i].FrameIndex]

\* C17 as claimed: when a run in grid mode is over, the frame indices printed
\* are exactly 1, 2, ..., K for the K frames decoded
C17_Original ==
    pc = "done" => EmittedIndices = [i \in 1 .. Len(decoded) |-> i]

\* C18 as claimed: every header printed in grid mode carries the index of a
\* decoded frame, a value in 1..K; none carries -1
C18_Original ==
    \A i \in 1 .. Len(out) : out[i].FrameIndex \in 1 .. Len(decoded)

(* C19: in grid mode every entry of the buffer other than the first is an    *)
(* empty frame: its Empty flag is set, no cell of its dx and dy was written, *)
(* and the frame it was built from carried no vector.  So when line 256      *)
(* holds, the frame InterpolateFlow overwrites (the second entry) is empty   *)
(* and all zero; a frame that carried vectors is never overwritten.          *)
C19_OnlyFrontNonEmpty ==
    \A i \in 2 .. Len(prev) :
        /\ prev[i].Empty
        /\ prev[i].dx = <<>> /\ prev[i].dy = <<>>
        /\ prev[i].FrameIndex >= 1 => decoded[prev[i].FrameIndex] = <<>>

\* line 256 is about to hold: the buffer's first entry carries vectors, its
\* second is empty, and a frame with vectors has arrived
C19_Witness ==
    /\ pc = "loop_body"
    /\ InterpolationFires(prev, motionVectors)
    /\ Cell(prev[1].dx, <<0, 0>>) # 0
    /\ prev[2].Empty

\* the run is over: main has returned, or the start-up has ended the process.
\* No step leaves these positions.
RunOver == pc \in {"done", "exited", "terminated"}

(* C20: with finitely many packets in the container and finitely many frames *)
(* from the decoder, the run reaches its end, whatever the decoder answers,  *)
(* an error or zero bytes consumed on every attempt included.  A pull that   *)
(* is under way has therefore returned before: the only steps out of         *)
(* read_packets hand main a frame or the end of the stream, and no packet    *)
(* is attempted forever.                                                     *)
C20_RunEnds == <>RunOver

\* the decoder has answered an attempt on a packet of two bytes with zero
\* bytes consumed and no frame, and the pull has moved on to the container
C20_Witness ==
    /\ pc = "av_read_frame"
    /\ dec = [ret |-> 0, got_frame |-> 0]
    /\ pktCopy.size = 2
    /\ pktCopy.stream_index = videoStreamIndex
    /\ nPackets >= 1
    /\ ~initialized

=============================================================================
